---------------------------- MODULE Spec2Model ----------------------------
(***************************************************************************)
(* Sentiment analysis API (src/app.py): text preprocessing, the process-   *)
(* wide model cache, label normalisation, single and batch analysis and    *)
(* the history log, as a state machine of request-handling worker threads. *)
(*                                                                         *)
(* Strings.  A request text is a sequence of character classes:            *)
(*   "a"  a non-blank character that the URL pattern's character class     *)
(*        accepts (letter, digit, '$'..'_', '.', '&', '+', '!', '*', ...)   *)
(*   "@"  the character '@' (accepted by the URL character class)          *)
(*   "#"  the character '#' (not accepted by the URL character class)      *)
(*   "~"  any other non-blank, non-emoji character ('~', '"', '{', ...)    *)
(*   " "  a whitespace character                                           *)
(*   "E"  an emoji grapheme                                                *)
(*   "U"  the scheme prefix "http://" or "https://"                        *)
(* A raw model label is a sequence of one-character strings.               *)
(***************************************************************************)
EXTENDS Integers, Sequences, FiniteSets, TLC

(***************************************************************************)
(* Bounds of the model.                                                    *)
(***************************************************************************)
\* Worker threads of the serving layer that may handle requests at once.
NThreads == 2
\* Texts analysed in one run, over all requests.
MaxItems == 3
\* Length of the request texts enumerated for preprocess_text.
MaxLen == 4

(***************************************************************************)
(* Program constants.                                                      *)
(***************************************************************************)
\* truncate_text(text, max_length=512)
max_length == 512
\* if len(texts) > 100
BatchLimit == 100

(***************************************************************************)
(* preprocess_text and truncate_text.                                      *)
(***************************************************************************)
TextChars == {"a", "@", "#", "~", " ", "E", "U"}

\* The characters the URL pattern's repeated group accepts.  The scheme
\* prefix is itself made of accepted characters (letters, ':' and '/').
UrlChars == {"a", "@", "U"}

\* emoji.demojize(text, delimiters=(" ", " ")): each emoji becomes its name
\* (letters and underscores) between two blanks.
RECURSIVE demojize(_)
demojize(text) ==
    IF text = <<>> THEN <<>>
    ELSE (IF Head(text) = "E" THEN <<" ", "a", " ">> ELSE <<Head(text)>>)
         \o demojize(Tail(text))

\* The end of the longest run of URL characters that starts at index i
\* (i - 1 when text[i] is not a URL character).
RECURSIVE UrlRunEnd(_, _)
UrlRunEnd(text, i) ==
    IF i <= Len(text) /\ text[i] \in UrlChars THEN UrlRunEnd(text, i + 1)
    ELSE i - 1

\* re.sub(r'http[s]?://(?:...)+', '', text): leftmost, non-overlapping,
\* greedy; the scheme prefix must be followed by at least one URL character.
RECURSIVE RemoveUrlsFrom(_, _)
RemoveUrlsFrom(text, i) ==
    IF i > Len(text) THEN <<>>
    ELSE IF text[i] = "U" /\ UrlRunEnd(text, i + 1) >= i + 1
         THEN RemoveUrlsFrom(text, UrlRunEnd(text, i + 1) + 1)
         ELSE <<text[i]>> \o RemoveUrlsFrom(text, i + 1)

RemoveUrls(text) == RemoveUrlsFrom(text, 1)

\* re.sub(r'[@#]', '', text)
RemoveMentionSymbols(text) == SelectSeq(text, LAMBDA c : c \notin {"@", "#"})

\* CollapseWhitespace without the strip(): a leading or trailing run of
\* whitespace is kept as one blank.
CollapseWhitespace_nostrip(text) ==
    SelectSeq([i \in 1..Len(text) |->
                  IF text[i] = " " /\ i > 1 /\ text[i - 1] = " " THEN "drop"
                  ELSE text[i]],
              LAMBDA c : c # "drop")

\* re.sub(r'\s+', ' ', text).strip(): a blank is kept when it follows a kept
\* non-blank character and a non-blank character follows it somewhere.
CollapseWhitespace(text) ==
    LET keep(i) == \/ text[i] # " "
                   \/ /\ i > 1
                      /\ text[i - 1] # " "
                      /\ \E j \in (i + 1)..Len(text) : text[j] # " "
        kept == {i \in 1..Len(text) : keep(i)}
        nth[k \in 1..Cardinality(kept)] ==
            CHOOSE i \in kept : Cardinality({j \in kept : j < i}) = k - 1
    IN  [k \in 1..Cardinality(kept) |-> text[nth[k]]]

preprocess_text(text) ==
    IF text = <<>> THEN <<>>
    ELSE CollapseWhitespace(RemoveMentionSymbols(RemoveUrls(demojize(text))))

truncate_text(text) ==
    IF Len(text) > max_length THEN SubSeq(text, 1, max_length) ELSE text


(***************************************************************************)
(* Label normalisation (analyze_sentiment, lines 134-145).                 *)
(***************************************************************************)
LowerChars == <<"a", "b", "c", "d", "e", "f", "g", "h", "i", "j", "k", "l", "m",
                "n", "o", "p", "q", "r", "s", "t", "u", "v", "w", "x", "y", "z">>
UpperChars == <<"A", "B", "C", "D", "E", "F", "G", "H", "I", "J", "K", "L", "M",
                "N", "O", "P", "Q", "R", "S", "T", "U", "V", "W", "X", "Y", "Z">>
DigitChars == <<"0", "1", "2", "3", "4", "5", "6", "7", "8", "9">>

POSITIVE == <<"P", "O", "S", "I", "T", "I", "V", "E">>
NEGATIVE == <<"N", "E", "G", "A", "T", "I", "V", "E">>
NEUTRAL == <<"N", "E", "U", "T", "R", "A", "L">>
STAR == <<"S", "T", "A", "R">>

\* str.upper(), one character
UpperChar(c) ==
    IF \E i \in 1..26 : LowerChars[i] = c
    THEN UpperChars[CHOOSE i \in 1..26 : LowerChars[i] = c]
    ELSE c

\* str.upper()
upper(s) == [i \in 1..Len(s) |-> UpperChar(s[i])]

\* sub in s
Contains(s, sub) ==
    \E i \in 1..(Len(s) - Len(sub) + 1) : SubSeq(s, i, i + Len(sub) - 1) = sub

\* s.split()[0], for s with a non-blank character
FirstToken(s) ==
    LET first == CHOOSE i \in 1..Len(s) :
                     s[i] # " " /\ \A j \in 1..(i - 1) : s[j] = " "
        last == CHOOSE i \in first..Len(s) :
                    /\ \A j \in first..i : s[j] # " "
                    /\ (i = Len(s) \/ s[i + 1] = " ")
    IN  SubSeq(s, first, last)

IsDigit(c) == \E i \in 1..10 : DigitChars[i] = c
DigitVal(c) == (CHOOSE i \in 1..10 : DigitChars[i] = c) - 1

\* Whether int(tok) accepts tok: an optional sign, then digits, single
\* underscores allowed between digits.
IsIntLiteral(tok) ==
    LET body == IF tok # <<>> /\ Head(tok) \in {"+", "-"} THEN Tail(tok) ELSE tok
    IN  /\ body # <<>>
        /\ \A i \in 1..Len(body) : IsDigit(body[i]) \/ body[i] = "_"
        /\ IsDigit(body[1]) /\ IsDigit(body[Len(body)])
        /\ \A i \in 1..(Len(body) - 1) : ~(body[i] = "_" /\ body[i + 1] = "_")

RECURSIVE DigitsValue(_, _)
DigitsValue(body, acc) ==
    IF body = <<>> THEN acc
    ELSE DigitsValue(Tail(body),
                     IF Head(body) = "_" THEN acc ELSE 10 * acc + DigitVal(Head(body)))

\* int(tok), for a tok that IsIntLiteral accepts
IntValue(tok) ==
    IF Head(tok) = "-" THEN 0 - DigitsValue(Tail(tok), 0)
    ELSE IF Head(tok) = "+" THEN DigitsValue(Tail(tok), 0)
    ELSE DigitsValue(tok, 0)

\* StarsToSentiment with "stars < 2" for "stars <= 2"
StarsToSentiment_lt(stars) ==
    IF stars < 2 THEN NEGATIVE
    ELSE IF stars = 3 THEN NEUTRAL
    ELSE POSITIVE

\* if stars <= 2 ... elif stars == 3 ... else
StarsToSentiment(stars) ==
    IF stars <= 2 THEN NEGATIVE
    ELSE IF stars = 3 THEN NEUTRAL
    ELSE POSITIVE

\* Lines 135-143: the normalised sentiment of a raw label, or the ValueError
\* int() raises for a label that holds STAR and does not start with a number.
NormalizeLabel(label) ==
    LET sentiment == upper(label)
    IN  IF Contains(sentiment, STAR)
        THEN IF IsIntLiteral(FirstToken(sentiment))
             THEN [sentiment |-> StarsToSentiment(IntValue(FirstToken(sentiment)))]
             ELSE [exception |-> "ValueError: invalid literal for int()"]
        ELSE [sentiment |-> sentiment]

\* round(result['score'], 4): scores are in units of 0.00001, confidences in
\* units of 0.0001; a tie goes to the even neighbour.
Round4(score) ==
    LET q == score \div 10
        r == score % 10
    IN  IF r > 5 \/ (r = 5 /\ q % 2 = 1) THEN q + 1 ELSE q

(***************************************************************************)
(* State.                                                                  *)
(***************************************************************************)
VARIABLES
    models_cache,   \* language tag -> loaded pipeline (the global model cache)
    loads,          \* language tag -> number of pipelines pipeline() created
    history,        \* the rows of sentiment_results, in insertion order
    served,         \* texts accepted for analysis so far (bounds the run)
    pc,             \* thread -> where its handler stands
    endpoint,       \* thread -> "analyze" | "batch" | "none"
    texts,          \* thread -> the texts of its request
    language,       \* thread -> the request's language
    save_history,   \* thread -> the request's save_history
    idx,            \* thread -> index of the text being analysed
    results,        \* thread -> the results so far
    model,          \* thread -> what load_model returned for the current text
    raw,            \* thread -> what the model call of its last step gave
    response,       \* thread -> the response of the finished request
    request         \* thread -> the headers and JSON body of its request

vars == <<models_cache, loads, history, served, pc, endpoint, texts, language,
          save_history, idx, results, model, raw, response, request>>

Threads == 1..NThreads

\* Language tags of requests; "xx" and "yy" are two tags model_map lacks.
Languages == {"en", "es", "fr", "xx", "yy"}

API_KEYS == {"demo-api-key-12345", "test-key-67890"}

(***************************************************************************)
(* load_model.                                                             *)
(***************************************************************************)
\* model_map.get(language, model_map['multilingual'])
model_name(lang) ==
    IF lang = "en" THEN "distilbert-base-uncased-finetuned-sst-2-english"
    ELSE "nlptown/bert-base-multilingual-uncased-sentiment"

\* Python's None, in the shape of a pipeline object.
None == [name |-> "None", tag |-> "None", serial |-> 0]

\* The pipeline object that the serial-th successful pipeline() call for
\* lang creates: every call creates a new object.
Pipeline(lang, serial) == [name |-> model_name(lang), tag |-> lang, serial |-> serial]

EmptyCache == [l \in {} |-> None]

\* InCache when load_model skips the cache lookup
InCache_never(cache, lang) == FALSE

\* if language in models_cache
InCache(cache, lang) == lang \in DOMAIN cache

\* CacheAfterLoad when the pipeline is stored under the model's name
CacheAfterLoad_byModelName(cache, lang, pipe) == (model_name(lang) :> pipe) @@ cache

\* models_cache[language] = sentiment_pipeline
CacheAfterLoad(cache, lang, pipe) == (lang :> pipe) @@ cache

\* CacheAfterFailure when the except branch stores its None in the cache
CacheAfterFailure_cachesNone(cache, lang) == (lang :> None) @@ cache

\* except Exception: print(...); return None
CacheAfterFailure(cache, lang) == cache

(***************************************************************************)
(* analyze_sentiment.                                                      *)
(***************************************************************************)
\* IsEmptyText when analyze_sentiment lacks the empty-text check
IsEmptyText_never(processed) == FALSE

\* if not processed_text
IsEmptyText(processed) == processed = <<>>

EmptyResult(text) ==
    [text |-> text, sentiment |-> NEUTRAL, confidence |-> 0,
     error |-> "Empty text after preprocessing"]

\* LoadFailedResult built like the empty-text result
LoadFailedResult_withSentiment(text) ==
    [text |-> text, sentiment |-> NEUTRAL, confidence |-> 0,
     error |-> "Model loading failed"]

LoadFailedResult(text) == [text |-> text, error |-> "Model loading failed"]

\* InferenceResult without the except branch: an exception of the model call
\* or of int() leaves analyze_sentiment.
InferenceResult_propagates(text, processed, lang, out, elapsed) ==
    IF out.kind = "raise" THEN [exception |-> out.exception]
    ELSE LET n == NormalizeLabel(out.label)
         IN  IF "exception" \in DOMAIN n
             THEN [exception |-> n.exception]
             ELSE [text |-> text,
                   processed_text |-> processed,
                   sentiment |-> n.sentiment,
                   confidence |-> Round4(out.score),
                   language |-> lang,
                   processing_time_seconds |-> elapsed]

\* The try block: the model call, label normalisation and the result; every
\* exception is caught and becomes an error result.  out is what the model
\* call does: [kind |-> "raise", exception] or [kind |-> "output", label,
\* score]; elapsed is the measured time in milliseconds.
InferenceResult(text, processed, lang, out, elapsed) ==
    IF out.kind = "raise" THEN [text |-> text, error |-> out.exception]
    ELSE LET n == NormalizeLabel(out.label)
         IN  IF "exception" \in DOMAIN n
             THEN [text |-> text, error |-> n.exception]
             ELSE [text |-> text,
                   processed_text |-> processed,
                   sentiment |-> n.sentiment,
                   confidence |-> Round4(out.score),
                   language |-> lang,
                   processing_time_seconds |-> elapsed]

(***************************************************************************)
(* Batch statistics (batch_analyze, lines 234-248).                        *)
(***************************************************************************)
HasError(r) == "error" \in DOMAIN r

Count(seq, x) == Cardinality({i \in 1..Len(seq) : seq[i] = x})

\* Statistics when the distribution counts every result that has a
\* sentiment, the empty-text result included
Statistics_countsAllSentiments(txts, res) ==
    LET successful == SelectSeq(res, LAMBDA r : ~HasError(r))
        withSentiment == SelectSeq(res, LAMBDA r : "sentiment" \in DOMAIN r)
        sentiments == [i \in 1..Len(withSentiment) |-> withSentiment[i].sentiment]
        total == Len(txts)
    IN  IF successful # <<>>
        THEN [total |-> total,
              successful |-> Len(successful),
              failed |-> total - Len(successful),
              sentiment_distribution |->
                  [POSITIVE |-> Count(sentiments, POSITIVE),
                   NEGATIVE |-> Count(sentiments, NEGATIVE),
                   NEUTRAL |-> Count(sentiments, NEUTRAL)]]
        ELSE [total |-> total,
              successful |-> Len(successful),
              failed |-> total - Len(successful)]

Statistics(txts, res) ==
    LET successful == SelectSeq(res, LAMBDA r : ~HasError(r))
        sentiments == [i \in 1..Len(successful) |-> successful[i].sentiment]
        total == Len(txts)
    IN  IF successful # <<>>
        THEN [total |-> total,
              successful |-> Len(successful),
              failed |-> total - Len(successful),
              sentiment_distribution |->
                  [POSITIVE |-> Count(sentiments, POSITIVE),
                   NEGATIVE |-> Count(sentiments, NEGATIVE),
                   NEUTRAL |-> Count(sentiments, NEUTRAL)]]
        ELSE [total |-> total,
              successful |-> Len(successful),
              failed |-> total - Len(successful)]

(***************************************************************************)
(* Requests: the inputs of the handlers.                                   *)
(***************************************************************************)
\* Request texts of the server specifications: plain text, a URL alone and
\* the empty string.
ServerTexts == {<<"a">>, <<"U", "a">>, <<>>}

SeqsUpTo(S, n) == UNION {[1..k -> S] : k \in 0..n}

\* Request headers: no X-API-Key, an empty one, a known key, an unknown key.
NoHeaders == [k \in {} |-> ""]

Headers ==
    {NoHeaders}
    \cup {("X-API-Key" :> v) : v \in {"", "demo-api-key-12345", "wrong-key"}}

\* JSON bodies of POST /api/analyze, with texts from T and languages from L
AnalyzeBodies(T, L) ==
    {[text |-> x, language |-> l, save_history |-> s] :
        x \in T, l \in L, s \in BOOLEAN}
    \cup {[text |-> x] : x \in T}
    \cup {[language |-> "en"], [k \in {} |-> ""]}

\* JSON bodies of POST /api/batch; n bounds the length of an accepted list.
BatchBodies(T, L, n) ==
    {[texts |-> [type |-> "list", items |-> xs], language |-> l, save_history |-> s] :
        xs \in SeqsUpTo(T, n), l \in L, s \in BOOLEAN}
    \cup {[texts |-> [type |-> "list", items |-> xs]] : xs \in SeqsUpTo(T, n)}
    \cup {[texts |-> [type |-> "list", items |-> [i \in 1..(BatchLimit + 1) |-> <<"a">>]]],
          [texts |-> [type |-> "string", items |-> <<>>]],
          [language |-> "en"],
          [k \in {} |-> ""]}

\* data.get(key, default)
Get(data, key, default) == IF key \in DOMAIN data THEN data[key] ELSE default

\* What a model call can do: raise, or give a label and a score.
Raises == [kind |-> "raise", exception |-> "RuntimeError"]
Output(label, score) == [kind |-> "output", label |-> label, score |-> score]

\* The inputs of the one-request-at-a-time specification.
SeqInputs ==
    [texts |-> ServerTexts,
     languages |-> {"en", "es", "xx"},
     headers |-> {NoHeaders},
     outputs |-> {Output(l, 99996) :
                     l \in {POSITIVE,
                            <<"1", " ", "s", "t", "a", "r">>,
                            <<"3", " ", "s", "t", "a", "r", "s">>,
                            <<"L", "A", "B", "E", "L", "_", "1">>,
                            <<"s", "t", "a", "r", "s">>}}
                 \cup {Raises},
     elapsed |-> {12}]

\* The inputs of the specification of request handling: every kind of
\* X-API-Key header and of body.
ReqInputs ==
    [texts |-> {<<"a">>, <<>>},
     languages |-> {"en", "es"},
     headers |-> Headers,
     outputs |-> {Output(POSITIVE, 99996), Raises},
     elapsed |-> {12}]

\* The inputs of the specification of the cache: one text, every language
\* tag.
CacheInputs ==
    [texts |-> {<<"a">>},
     languages |-> Languages,
     headers |-> {NoHeaders},
     outputs |-> {Output(POSITIVE, 99996)},
     elapsed |-> {12}]

\* The inputs of the concurrent specification.
ConcInputs ==
    [texts |-> {<<"a">>, <<>>},
     languages |-> {"en", "es"},
     headers |-> {NoHeaders},
     outputs |-> {Output(POSITIVE, 99996), Raises},
     elapsed |-> {12}]

NoOutput == [kind |-> "none"]
NoResponse == [status |-> 0]
NoRequest == [kind |-> "none"]

(***************************************************************************)
(* Initial state: the module has been imported (models_cache = {}), and,   *)
(* when run as a script, load_model('en') has been tried before serving.   *)
(***************************************************************************)
Init ==
    /\ \/ /\ models_cache = EmptyCache
          /\ loads = [l \in Languages |-> 0]
       \/ /\ models_cache = CacheAfterLoad(EmptyCache, "en", Pipeline("en", 1))
          /\ loads = [l \in Languages |-> IF l = "en" THEN 1 ELSE 0]
    /\ history = <<>>
    /\ served = 0
    /\ pc = [t \in Threads |-> "idle"]
    /\ endpoint = [t \in Threads |-> "none"]
    /\ texts = [t \in Threads |-> <<>>]
    /\ language = [t \in Threads |-> "en"]
    /\ save_history = [t \in Threads |-> FALSE]
    /\ idx = [t \in Threads |-> 0]
    /\ results = [t \in Threads |-> <<>>]
    /\ model = [t \in Threads |-> None]
    /\ raw = [t \in Threads |-> NoOutput]
    /\ response = [t \in Threads |-> NoResponse]
    /\ request = [t \in Threads |-> NoRequest]

(***************************************************************************)
(* The handlers, step by step.                                             *)
(***************************************************************************)
\* if api_key and api_key not in API_KEYS: return 401
KeyRejected(headers) ==
    /\ "X-API-Key" \in DOMAIN headers
    /\ headers["X-API-Key"] # ""
    /\ headers["X-API-Key"] \notin API_KEYS

\* return jsonify({'error': msg}), status: the handler ends before the core.
Reply(t, ep, req, status, msg) ==
    /\ pc' = [pc EXCEPT ![t] = "done"]
    /\ endpoint' = [endpoint EXCEPT ![t] = ep]
    /\ request' = [request EXCEPT ![t] = req]
    /\ response' = [response EXCEPT ![t] = [status |-> status, body |-> [error |-> msg]]]
    /\ UNCHANGED <<models_cache, loads, history, served, texts, language,
                   save_history, idx, results, model, raw>>

\* The request passed validation: the handler goes on to its texts.
Begin(t, ep, req, txts, lang, save) ==
    /\ served + Len(txts) <= MaxItems
    /\ served' = served + Len(txts)
    /\ request' = [request EXCEPT ![t] = req]
    /\ pc' = [pc EXCEPT ![t] = IF txts = <<>> THEN "respond" ELSE "analyze"]
    /\ endpoint' = [endpoint EXCEPT ![t] = ep]
    /\ texts' = [texts EXCEPT ![t] = txts]
    /\ language' = [language EXCEPT ![t] = lang]
    /\ save_history' = [save_history EXCEPT ![t] = save]
    /\ idx' = [idx EXCEPT ![t] = 1]
    /\ UNCHANGED <<models_cache, loads, history, results, model, raw, response>>

\* analyze without the "Text cannot be empty" check
analyze_acceptsEmpty(t, in) ==
    /\ pc[t] = "idle"
    /\ \E headers \in in.headers, data \in AnalyzeBodies(in.texts, in.languages) :
          LET req == [headers |-> headers, data |-> data]
          IN  IF KeyRejected(headers)
              THEN Reply(t, "analyze", req, 401, "Invalid API key")
              ELSE IF DOMAIN data = {} \/ "text" \notin DOMAIN data
              THEN Reply(t, "analyze", req, 400, "Missing required field: text")
              ELSE Begin(t, "analyze", req, <<data["text"]>>,
                         Get(data, "language", "en"),
                         Get(data, "save_history", TRUE))

\* POST /api/analyze up to the call of analyze_sentiment
analyze(t, in) ==
    /\ pc[t] = "idle"
    /\ \E headers \in in.headers, data \in AnalyzeBodies(in.texts, in.languages) :
          LET req == [headers |-> headers, data |-> data]
          IN  IF KeyRejected(headers)
              THEN Reply(t, "analyze", req, 401, "Invalid API key")
              ELSE IF DOMAIN data = {} \/ "text" \notin DOMAIN data
              THEN Reply(t, "analyze", req, 400, "Missing required field: text")
              ELSE IF data["text"] = <<>>
              THEN Reply(t, "analyze", req, 400, "Text cannot be empty")
              ELSE Begin(t, "analyze", req, <<data["text"]>>,
                         Get(data, "language", "en"),
                         Get(data, "save_history", TRUE))

\* POST /api/batch up to the loop over texts
batch_analyze(t, in) ==
    /\ pc[t] = "idle"
    /\ \E headers \in in.headers,
          data \in BatchBodies(in.texts, in.languages, MaxItems - served) :
          LET req == [headers |-> headers, data |-> data]
          IN  IF KeyRejected(headers)
              THEN Reply(t, "batch", req, 401, "Invalid API key")
              ELSE IF DOMAIN data = {} \/ "texts" \notin DOMAIN data
              THEN Reply(t, "batch", req, 400, "Missing required field: texts")
              ELSE IF data["texts"].type # "list"
              THEN Reply(t, "batch", req, 400, "texts must be a list")
              ELSE IF Len(data["texts"].items) > BatchLimit
              THEN Reply(t, "batch", req, 400, "Maximum 100 texts per batch")
              ELSE Begin(t, "batch", req, data["texts"].items,
                         Get(data, "language", "en"),
                         Get(data, "save_history", TRUE))

\* return jsonify(body), 200 of a handler that does not call the core
Answer(t, ep, req, body) ==
    /\ pc' = [pc EXCEPT ![t] = "done"]
    /\ endpoint' = [endpoint EXCEPT ![t] = ep]
    /\ request' = [request EXCEPT ![t] = req]
    /\ response' = [response EXCEPT ![t] = [status |-> 200, body |-> body]]
    /\ UNCHANGED <<models_cache, loads, history, served, texts, language,
                   save_history, idx, results, model, raw>>

\* A GET handler behind require_api_key that reads sentiment_results: it
\* answers 200 with body, or 500 when sqlite raises.
ReadHistory(t, ep, in, body) ==
    /\ pc[t] = "idle"
    /\ \E headers \in in.headers :
          LET req == [headers |-> headers]
          IN  IF KeyRejected(headers)
              THEN Reply(t, ep, req, 401, "Invalid API key")
              ELSE \/ Answer(t, ep, req, body)
                   \/ Reply(t, ep, req, 500, "sqlite3.Error")

\* GET /api/history without query arguments; the listed rows are left out
\* of the body.
get_history(t, in) ==
    ReadHistory(t, "history", in,
                [total |-> Len(history), limit |-> 100, offset |-> 0])

\* GET /api/stats; the averages and the 24-hour trend are left out of the
\* body.
get_statistics(t, in) ==
    ReadHistory(t, "stats", in,
                [total_analyses |-> Len(history),
                 sentiment_distribution |->
                     [s \in {history[i].sentiment : i \in 1..Len(history)} |->
                         Cardinality({i \in 1..Len(history) :
                                         history[i].sentiment = s})]])

\* GET /api/export in JSON; the body is the number of exported rows.
export_history(t, in) ==
    ReadHistory(t, "export", in, [rows |-> Len(history)])

\* CurText when the loop analyses the first text at every turn
CurText_first(t) == texts[t][1]

\* for text in texts: the text of the current turn
CurText(t) == texts[t][idx[t]]
CurProcessed(t) == truncate_text(preprocess_text(CurText(t)))

\* The loop goes to the next text, or ends.
Advance(t) ==
    /\ idx' = [idx EXCEPT ![t] = idx[t] + 1]
    /\ pc' = [pc EXCEPT ![t] = IF idx[t] + 1 > Len(texts[t]) THEN "respond" ELSE "analyze"]

\* An exception no handler catches: Flask answers 500.
Unhandled(t) ==
    /\ pc' = [pc EXCEPT ![t] = "done"]
    /\ response' = [response EXCEPT ![t] =
                       [status |-> 500, body |-> [error |-> "Internal server error"]]]
    /\ UNCHANGED <<idx, results>>

\* ShouldSave without the test of save_history
ShouldSave_ignoresFlag(r, save) == ~HasError(r)

\* if 'error' not in result and save_history
ShouldSave(r, save) == ~HasError(r) /\ save

\* analyze_sentiment returned r to the handler: the result is kept, and is
\* saved next when it has no error and save_history is set.
Returned(t, r) ==
    IF "exception" \in DOMAIN r
    THEN Unhandled(t)
    ELSE /\ results' = [results EXCEPT ![t] = Append(results[t], r)]
         /\ IF ShouldSave(r, save_history[t])
            THEN /\ pc' = [pc EXCEPT ![t] = "save"]
                 /\ UNCHANGED idx
            ELSE Advance(t)
         /\ UNCHANGED response

\* if not model: return {'text': text, 'error': 'Model loading failed'}
AfterLoad(t, m) ==
    /\ model' = [model EXCEPT ![t] = m]
    /\ IF m = None
       THEN Returned(t, LoadFailedResult(CurText(t)))
       ELSE /\ pc' = [pc EXCEPT ![t] = "invoke"]
            /\ UNCHANGED <<idx, results, response>>

\* analyze_sentiment from its start to load_model's cache lookup
analyze_sentiment(t) ==
    /\ pc[t] = "analyze"
    /\ raw' = [raw EXCEPT ![t] = NoOutput]
    /\ IF IsEmptyText(CurProcessed(t))
       THEN /\ Returned(t, EmptyResult(CurText(t)))
            /\ UNCHANGED model
       ELSE IF InCache(models_cache, language[t])
       THEN AfterLoad(t, models_cache[language[t]])
       ELSE /\ pc' = [pc EXCEPT ![t] = "loading"]
            /\ UNCHANGED <<idx, results, model, response>>
    /\ UNCHANGED <<models_cache, loads, history, served, endpoint, texts,
                   language, save_history, request>>

\* pipeline(...) returns a pipeline: it is cached and returned
load_model_ok(t) ==
    /\ pc[t] = "loading"
    /\ LET pipe == Pipeline(language[t], loads[language[t]] + 1)
       IN  /\ models_cache' = CacheAfterLoad(models_cache, language[t], pipe)
           /\ loads' = [loads EXCEPT ![language[t]] = @ + 1]
           /\ AfterLoad(t, pipe)
    /\ UNCHANGED <<history, served, endpoint, texts, language, save_history,
                   raw, request>>

\* pipeline(...) raises: load_model prints the error and returns None
load_model_fail(t) ==
    /\ pc[t] = "loading"
    /\ models_cache' = CacheAfterFailure(models_cache, language[t])
    /\ AfterLoad(t, None)
    /\ UNCHANGED <<loads, history, served, endpoint, texts, language,
                   save_history, raw, request>>

\* model(processed_text)[0] and the rest of analyze_sentiment
invoke(t, in) ==
    /\ pc[t] = "invoke"
    /\ \E out \in in.outputs, elapsed \in in.elapsed :
          /\ raw' = [raw EXCEPT ![t] = out]
          /\ Returned(t, InferenceResult(CurText(t), CurProcessed(t), language[t],
                                          out, elapsed))
    /\ UNCHANGED <<models_cache, loads, history, served, endpoint, texts,
                   language, save_history, model, request>>

LastResult(t) == results[t][Len(results[t])]

\* The row save_to_history inserts
HistoryRow(text, r, lang) ==
    [text |-> text, sentiment |-> r.sentiment, score |-> r.confidence,
     language |-> lang]

\* save_to_history: the INSERT is committed
save_to_history(t) ==
    /\ pc[t] = "save"
    /\ history' = Append(history, HistoryRow(CurText(t), LastResult(t), language[t]))
    /\ Advance(t)
    /\ raw' = [raw EXCEPT ![t] = NoOutput]
    /\ UNCHANGED <<models_cache, loads, served, endpoint, texts, language,
                   save_history, results, model, response, request>>

\* save_to_history_fail without the try/except: the sqlite error leaves
\* save_to_history and the handler.
save_to_history_fail_propagates(t) ==
    /\ pc[t] = "save"
    /\ Unhandled(t)
    /\ raw' = [raw EXCEPT ![t] = NoOutput]
    /\ UNCHANGED <<models_cache, loads, history, served, endpoint, texts,
                   language, save_history, model, request>>

\* save_to_history: sqlite raises; the error is printed and dropped
save_to_history_fail(t) ==
    /\ pc[t] = "save"
    /\ Advance(t)
    /\ raw' = [raw EXCEPT ![t] = NoOutput]
    /\ UNCHANGED <<models_cache, loads, history, served, endpoint, texts,
                   language, save_history, results, model, response, request>>

\* return jsonify(...), 200
Respond(t) ==
    /\ pc[t] = "respond"
    /\ response' = [response EXCEPT ![t] =
          IF endpoint[t] = "analyze"
          THEN [status |-> 200, body |-> results[t][1]]
          ELSE [status |-> 200,
                body |-> [results |-> results[t],
                          statistics |-> Statistics(texts[t], results[t])]]]
    /\ pc' = [pc EXCEPT ![t] = "done"]
    /\ raw' = [raw EXCEPT ![t] = NoOutput]
    /\ UNCHANGED <<models_cache, loads, history, served, endpoint, texts,
                   language, save_history, idx, results, model, request>>

\* The response is sent; the thread takes the next request.
Finish(t) ==
    /\ pc[t] = "done"
    /\ pc' = [pc EXCEPT ![t] = "idle"]
    /\ endpoint' = [endpoint EXCEPT ![t] = "none"]
    /\ texts' = [texts EXCEPT ![t] = <<>>]
    /\ language' = [language EXCEPT ![t] = "en"]
    /\ save_history' = [save_history EXCEPT ![t] = FALSE]
    /\ idx' = [idx EXCEPT ![t] = 0]
    /\ results' = [results EXCEPT ![t] = <<>>]
    /\ model' = [model EXCEPT ![t] = None]
    /\ raw' = [raw EXCEPT ![t] = NoOutput]
    /\ response' = [response EXCEPT ![t] = NoResponse]
    /\ request' = [request EXCEPT ![t] = NoRequest]
    /\ UNCHANGED <<models_cache, loads, history, served>>

\* One worker: requests are handled one at a time, to the end.
Next ==
    \/ analyze(1, SeqInputs)
    \/ batch_analyze(1, SeqInputs)
    \/ analyze_sentiment(1)
    \/ load_model_ok(1)
    \/ load_model_fail(1)
    \/ invoke(1, SeqInputs)
    \/ save_to_history(1)
    \/ save_to_history_fail(1)
    \/ Respond(1)
    \/ Finish(1)

Spec == Init /\ [][Next]_vars

\* One worker and all the endpoints behind require_api_key, with and without
\* an X-API-Key header, with well-formed and malformed bodies.
NextReq ==
    \/ analyze(1, ReqInputs)
    \/ batch_analyze(1, ReqInputs)
    \/ get_history(1, ReqInputs)
    \/ get_statistics(1, ReqInputs)
    \/ export_history(1, ReqInputs)
    \/ analyze_sentiment(1)
    \/ load_model_ok(1)
    \/ load_model_fail(1)
    \/ invoke(1, ReqInputs)
    \/ save_to_history(1)
    \/ save_to_history_fail(1)
    \/ Respond(1)
    \/ Finish(1)

SpecReq == Init /\ [][NextReq]_vars

\* One worker and requests in every language tag.
NextCache ==
    \/ analyze(1, CacheInputs)
    \/ batch_analyze(1, CacheInputs)
    \/ analyze_sentiment(1)
    \/ load_model_ok(1)
    \/ load_model_fail(1)
    \/ invoke(1, CacheInputs)
    \/ save_to_history(1)
    \/ save_to_history_fail(1)
    \/ Respond(1)
    \/ Finish(1)

SpecCache == Init /\ [][NextCache]_vars

\* Concurrent POST /api/analyze requests, one on each worker thread of the
\* serving layer; the steps of the threads interleave.
NextConc ==
    \E t \in Threads :
        \/ analyze(t, ConcInputs)
        \/ analyze_sentiment(t)
        \/ load_model_ok(t)
        \/ load_model_fail(t)
        \/ invoke(t, ConcInputs)
        \/ save_to_history(t)
        \/ save_to_history_fail(t)
        \/ Respond(t)

SpecConc == Init /\ [][NextConc]_vars

(***************************************************************************)
(* analyze_sentiment on every text of up to MaxLen characters: the worker  *)
(* has accepted a batch of one text.                                       *)
(***************************************************************************)
AllTexts == SeqsUpTo(TextChars, MaxLen)

\* The request, without an X-API-Key header, that the handler of ep accepts
\* as txts, lang and save.
RequestFor(ep, txts, lang, save) ==
    [headers |-> NoHeaders,
     data |-> IF ep = "analyze"
              THEN [text |-> txts[1], language |-> lang, save_history |-> save]
              ELSE [texts |-> [type |-> "list", items |-> txts],
                    language |-> lang, save_history |-> save]]

Accepted(t, ep, txts, lang, save) ==
    /\ pc = [u \in Threads |-> IF u = t THEN "analyze" ELSE "idle"]
    /\ endpoint = [u \in Threads |-> IF u = t THEN ep ELSE "none"]
    /\ texts = [u \in Threads |-> IF u = t THEN txts ELSE <<>>]
    /\ language = [u \in Threads |-> IF u = t THEN lang ELSE "en"]
    /\ save_history = [u \in Threads |-> IF u = t THEN save ELSE FALSE]
    /\ idx = [u \in Threads |-> IF u = t THEN 1 ELSE 0]
    /\ served = Len(txts)
    /\ models_cache = EmptyCache
    /\ loads = [l \in Languages |-> 0]
    /\ history = <<>>
    /\ results = [u \in Threads |-> <<>>]
    /\ model = [u \in Threads |-> None]
    /\ raw = [u \in Threads |-> NoOutput]
    /\ response = [u \in Threads |-> NoResponse]
    /\ request = [u \in Threads |->
                     IF u = t THEN RequestFor(ep, txts, lang, save) ELSE NoRequest]

InitText == \E x \in AllTexts : Accepted(1, "batch", <<x>>, "en", FALSE)

TextInputs ==
    [outputs |-> {Output(POSITIVE, 99996), Raises},
     elapsed |-> {12}]

NextText ==
    \/ analyze_sentiment(1)
    \/ load_model_ok(1)
    \/ load_model_fail(1)
    \/ invoke(1, TextInputs)
    \/ Respond(1)

SpecText == InitText /\ [][NextText]_vars

(***************************************************************************)
(* analyze_sentiment on every raw label of AllLabels: the worker has       *)
(* accepted one plain text.                                                *)
(***************************************************************************)
LowerOf(c) ==
    IF \E i \in 1..26 : UpperChars[i] = c
    THEN LowerChars[CHOOSE i \in 1..26 : UpperChars[i] = c]
    ELSE c

\* word (in upper case) in every mix of letter cases
CaseVariants(word) ==
    {[i \in 1..Len(word) |-> IF b[i] THEN word[i] ELSE LowerOf(word[i])] :
        b \in [1..Len(word) -> BOOLEAN]}

\* "<n> star" and "<n> stars" for a digit n, the word in any letter case
StarLabels ==
    {<<DigitChars[n + 1], " ">> \o w \o s :
        n \in 0..9, w \in CaseVariants(STAR), s \in {<<>>, <<"s">>, <<"S">>}}

OtherLabels ==
    {<<"L", "A", "B", "E", "L", "_", "0">>,
     <<"L", "A", "B", "E", "L", "_", "1">>,
     <<"n", "e", "u", "t", "r", "a", "l">>,
     <<"m", "i", "x", "e", "d">>,
     <<"s", "t", "a", "r", "s">>,
     <<"f", "i", "v", "e", " ", "s", "t", "a", "r", "s">>,
     <<"-", "1", " ", "s", "t", "a", "r">>,
     <<"1", "2", " ", "s", "t", "a", "r", "s">>,
     <<" ", "4", " ", " ", "s", "t", "a", "r", "s">>,
     <<>>}

AllLabels ==
    CaseVariants(POSITIVE) \cup CaseVariants(NEGATIVE) \cup StarLabels
    \cup OtherLabels

InitLabel == Accepted(1, "analyze", <<(<<"a">>)>>, "en", FALSE)

LabelInputs ==
    [outputs |-> {Output(l, s) : l \in AllLabels, s \in {3125, 50004, 99996}}
                 \cup {Raises},
     elapsed |-> {0, 12}]

NextLabel ==
    \/ analyze_sentiment(1)
    \/ load_model_ok(1)
    \/ load_model_fail(1)
    \/ invoke(1, LabelInputs)
    \/ Respond(1)

SpecLabel == InitLabel /\ [][NextLabel]_vars

(***************************************************************************)
(* Properties.                                                             *)
(***************************************************************************)
Canonical == {POSITIVE, NEGATIVE, NEUTRAL}

\* Thread t is at load_model's pipeline() call for tag l.
Loading(t, l) == pc[t] = "loading" /\ language[t] = l

\* C1: under any interleaving of concurrent load_model calls for a tag that
\* is not yet cached, the model is loaded at most once for the tag: no
\* caller is inside pipeline() for a tag while another one is, or after a
\* pipeline for that tag has been created.
C1_AtMostOneLoadPerTag ==
    \A l \in Languages :
        loads[l] + Cardinality({t \in Threads : Loading(t, l)}) <= 1

\* The sum of the counts of a statistics object's sentiment_distribution,
\* 0 when it has none.
DistributionSum(st) ==
    IF "sentiment_distribution" \in DOMAIN st
    THEN st.sentiment_distribution.POSITIVE + st.sentiment_distribution.NEGATIVE
         + st.sentiment_distribution.NEUTRAL
    ELSE 0

BatchDone(t) ==
    pc[t] = "done" /\ endpoint[t] = "batch" /\ response[t].status = 200

\* C2: the statistics of every answered batch satisfy successful + failed =
\* total, and the counts of sentiment_distribution sum to successful.
C2_BatchStatistics ==
    \A t \in Threads :
        BatchDone(t) =>
            LET st == response[t].body.statistics
            IN  /\ st.successful + st.failed = st.total
                /\ DistributionSum(st) = st.successful

\* Thread t's step ends load_model with None.
FailsAtLoad(t) == pc[t] = "loading" /\ pc'[t] # "loading" /\ model'[t] = None

\* Thread t's step is a model call that raises.
FailsAtInference(t) ==
    pc[t] = "invoke" /\ pc'[t] # "invoke" /\ raw'[t].kind = "raise"

\* Thread t's step adds an error result for the current text and goes on to
\* the next text (or to the response when there is none).
IsolatedFailure(t) ==
    /\ Len(results'[t]) = Len(results[t]) + 1
    /\ SubSeq(results'[t], 1, Len(results[t])) = results[t]
    /\ HasError(results'[t][Len(results'[t])])
    /\ results'[t][Len(results'[t])].text = CurText(t)
    /\ response'[t] = NoResponse
    /\ idx'[t] = idx[t] + 1
    /\ pc'[t] = IF idx[t] < Len(texts[t]) THEN "analyze" ELSE "respond"

\* C3: a failed model load or a raising model call for one text gives an
\* error result for that text and the handler goes on with the next text;
\* no request ends in an unhandled exception, and an answered batch holds a
\* result for every text.
C3_FailureIsolated ==
    /\ [](\A t \in Threads :
            /\ response[t].status # 500
            /\ BatchDone(t) => Len(response[t].body.results) = Len(texts[t]))
    /\ [][\A t \in Threads :
            (FailsAtLoad(t) \/ FailsAtInference(t)) => IsolatedFailure(t)]_vars

\* A batch is answered whose first text failed (model load or model call)
\* and whose later text was analysed.
C3_Witness ==
    \E t \in Threads :
        /\ BatchDone(t)
        /\ Len(results[t]) = 3
        /\ results[t][1] = LoadFailedResult(texts[t][1])
        /\ HasError(results[t][2]) /\ results[t][2].error = "RuntimeError"
        /\ ~HasError(results[t][3])

\* Thread t takes a step of analyze_sentiment's first part.
StartsAnalysis(t) ==
    pc[t] = "analyze" /\ (pc'[t] # pc[t] \/ idx'[t] # idx[t])

\* C4: for a text that is empty after preprocessing and truncation,
\* analyze_sentiment returns sentiment NEUTRAL, confidence 0.0 and the error
\* "Empty text after preprocessing" at once: load_model is not called, no
\* model is called, and models_cache is unchanged.
C4_EmptyTextSkipsModel ==
    [][\A t \in Threads :
        (StartsAnalysis(t) /\ CurProcessed(t) = <<>>) =>
            /\ results'[t] = Append(results[t],
                   [text |-> CurText(t), sentiment |-> NEUTRAL, confidence |-> 0,
                    error |-> "Empty text after preprocessing"])
            /\ pc'[t] \notin {"loading", "invoke"}
            /\ model'[t] = model[t]
            /\ raw'[t] = NoOutput
            /\ models_cache' = models_cache
            /\ loads' = loads]_vars

\* A text that is a URL alone got the empty-text result while the model of
\* its language is not cached.
C4_Witness ==
    \E t \in Threads :
        /\ Len(results[t]) >= 1
        /\ texts[t][1] = <<"U", "a">>
        /\ results[t][1] = EmptyResult(<<"U", "a">>)
        /\ ~InCache(models_cache, language[t])
        /\ loads[language[t]] = 0

HasSentiment(r) == "sentiment" \in DOMAIN r /\ "confidence" \in DOMAIN r
HasNoSentiment(r) == "sentiment" \notin DOMAIN r /\ "confidence" \notin DOMAIN r

\* C5 as stated: every result has either sentiment with confidence, or
\* error, never both and never neither.
C5_ExactlyOne ==
    \A t \in Threads : \A i \in 1..Len(results[t]) :
        HasSentiment(results[t][i]) # HasError(results[t][i])

\* C5, amended: every result has either sentiment with confidence, or error
\* without them, except the result of a text that is empty after
\* preprocessing, which has all three: sentiment NEUTRAL, confidence 0.0 and
\* the error "Empty text after preprocessing".  No result has neither.
C5_ExactlyOneUnlessEmpty ==
    \A t \in Threads : \A i \in 1..Len(results[t]) :
        LET r == results[t][i]
        IN  IF truncate_text(preprocess_text(texts[t][i])) = <<>>
            THEN /\ HasSentiment(r) /\ HasError(r)
                 /\ r.sentiment = NEUTRAL /\ r.confidence = 0
                 /\ r.error = "Empty text after preprocessing"
            ELSE \/ HasSentiment(r) /\ ~HasError(r)
                 \/ HasError(r) /\ HasNoSentiment(r)

\* One batch holds an empty-text result, a load failure, and a success.
C5_Witness ==
    \E t \in Threads :
        /\ Len(results[t]) = 3
        /\ results[t][1] = EmptyResult(texts[t][1])
        /\ results[t][2] = LoadFailedResult(texts[t][2])
        /\ HasSentiment(results[t][3]) /\ ~HasError(results[t][3])

\* C6: every sentiment in a result, and every sentiment in the history, is
\* POSITIVE, NEGATIVE or NEUTRAL, whatever label the model gives.
C6_CanonicalSentiment ==
    /\ \A t \in Threads : \A i \in 1..Len(results[t]) :
          "sentiment" \in DOMAIN results[t][i] =>
              results[t][i].sentiment \in Canonical
    /\ \A i \in 1..Len(history) : history[i].sentiment \in Canonical

\* C7: a failed load is not cached.  When load_model fails it returns None,
\* leaves models_cache as it was, without an entry for the tag, and the text
\* gets "Model loading failed"; no cache entry is ever None; a load_model
\* call for a tag without an entry goes to pipeline() again; and when
\* pipeline() succeeds the pipeline is cached and returned.
C7_FailedLoadNotCached ==
    /\ [](\A l \in DOMAIN models_cache : models_cache[l] # None)
    /\ [][\A t \in Threads :
            /\ (pc[t] = "loading" /\ pc'[t] # "loading" /\ loads' = loads) =>
                  /\ model'[t] = None
                  /\ models_cache' = models_cache
                  /\ language[t] \notin DOMAIN models_cache'
                  /\ results'[t] = Append(results[t],
                         [text |-> CurText(t), error |-> "Model loading failed"])
            /\ (StartsAnalysis(t) /\ CurProcessed(t) # <<>>
                  /\ language[t] \notin DOMAIN models_cache) =>
                  pc'[t] = "loading"
            /\ (pc[t] = "loading" /\ pc'[t] # "loading" /\ loads' # loads) =>
                  /\ language[t] \in DOMAIN models_cache'
                  /\ models_cache'[language[t]] # None
                  /\ model'[t] = models_cache'[language[t]]
                  /\ pc'[t] = "invoke"]_vars

\* In one batch the load failed for the first text and succeeded for the
\* second, which was then analysed.
C7_Witness ==
    \E t \in Threads :
        /\ Len(results[t]) = 2
        /\ results[t][1] = LoadFailedResult(texts[t][1])
        /\ ~HasError(results[t][2])
        /\ InCache(models_cache, language[t])
        /\ model[t] = models_cache[language[t]]

\* C8: with one request at a time, once a tag has a cached pipeline every
\* later load_model for the tag returns that pipeline, the entry never
\* changes and the tag's load count stays 1.
C8_CachedHandleReused ==
    /\ [](\A l \in DOMAIN models_cache : loads[l] = 1)
    /\ [][/\ \A l \in DOMAIN models_cache :
               /\ l \in DOMAIN models_cache'
               /\ models_cache'[l] = models_cache[l]
               /\ loads'[l] = loads[l]
          /\ \A t \in Threads :
               (StartsAnalysis(t) /\ CurProcessed(t) # <<>>
                  /\ language[t] \in DOMAIN models_cache) =>
                  /\ model'[t] = models_cache[language[t]]
                  /\ pc'[t] = "invoke"]_vars

\* The first text of a batch loaded the model and was analysed; load_model
\* for the second text returned the same pipeline.
C8_Witness ==
    \E t \in Threads :
        /\ pc[t] = "invoke" /\ idx[t] = 2
        /\ ~HasError(results[t][1])
        /\ language[t] = "es"
        /\ model[t] = Pipeline("es", 1)
        /\ models_cache["es"] = model[t]
        /\ loads["es"] = 1

\* The blank-separated pieces of text start and end at these indices.
IsPieceStart(text, i) == text[i] # " " /\ (i = 1 \/ text[i - 1] = " ")
PieceEnd(text, i) ==
    CHOOSE j \in i..Len(text) :
        /\ \A k \in i..j : text[k] # " "
        /\ (j = Len(text) \/ text[j + 1] = " ")

\* text is made of emoji, URLs (a scheme prefix and at least one more
\* non-blank character) and whitespace only.
OnlyEmojiUrlsWhitespace(text) ==
    \A i \in 1..Len(text) :
        \/ text[i] \in {" ", "E"}
        \/ /\ text[i] = "U"
           /\ i < Len(text) /\ text[i + 1] \notin {" ", "E"}
        \/ /\ i > 1
           /\ \E j \in 1..(i - 1) :
                 /\ text[j] = "U"
                 /\ \A k \in (j + 1)..i : text[k] \notin {" ", "E"}

\* text is made of whitespace and of URLs that the URL pattern matches in
\* full: each blank-separated piece is a scheme prefix followed by one or
\* more characters of the pattern's class.
OnlyMatchedUrlsWhitespace(text) ==
    \A i \in 1..Len(text) :
        IsPieceStart(text, i) =>
            /\ text[i] = "U"
            /\ PieceEnd(text, i) > i
            /\ \A k \in (i + 1)..PieceEnd(text, i) : text[k] \in {"a", "@", "U"}

\* C9 as stated: a text made only of emoji, URLs and whitespace is empty
\* after preprocess_text and gets sentiment NEUTRAL, confidence 0.0 and the
\* error "Empty text after preprocessing".
C9_EmojiUrlsWhitespaceEmpty ==
    \A t \in Threads :
        (Len(results[t]) >= 1 /\ OnlyEmojiUrlsWhitespace(texts[t][1])) =>
            /\ preprocess_text(texts[t][1]) = <<>>
            /\ results[t][1] =
                  [text |-> texts[t][1], sentiment |-> NEUTRAL, confidence |-> 0,
                   error |-> "Empty text after preprocessing"]

\* C9, amended: a text made only of whitespace and of URLs that the pattern
\* matches in full is empty after preprocess_text and gets sentiment
\* NEUTRAL, confidence 0.0 and the error "Empty text after preprocessing";
\* a text with an emoji is not empty after preprocess_text (the emoji
\* becomes its description) and does not get that result.
C9_MatchedUrlsWhitespaceEmpty ==
    \A t \in Threads :
        Len(results[t]) >= 1 =>
            /\ OnlyMatchedUrlsWhitespace(texts[t][1]) =>
                  /\ preprocess_text(texts[t][1]) = <<>>
                  /\ results[t][1] =
                        [text |-> texts[t][1], sentiment |-> NEUTRAL,
                         confidence |-> 0,
                         error |-> "Empty text after preprocessing"]
            /\ (\E i \in 1..Len(texts[t][1]) : texts[t][1][i] = "E") =>
                  /\ preprocess_text(texts[t][1]) # <<>>
                  /\ ~(HasError(results[t][1])
                        /\ results[t][1].error = "Empty text after preprocessing")

\* A text that is a URL between blanks got the empty-text result.
C9_Witness ==
    \E t \in Threads :
        /\ texts[t] = <<(<<" ", "U", "a", " ">>)>>
        /\ results[t] = <<EmptyResult(<<" ", "U", "a", " ">>)>>

\* a and b (b in upper case) are the same up to letter case.
SameIgnoringCase(a, b) ==
    /\ Len(a) = Len(b)
    /\ \A i \in 1..Len(b) : a[i] \in {b[i], LowerOf(b[i])}

\* label is "<n> star" or "<n> stars", the word in any letter case.
IsStarLabel(label, n) ==
    /\ Len(label) \in {6, 7}
    /\ label[1] = DigitChars[n + 1]
    /\ label[2] = " "
    /\ SameIgnoringCase(SubSeq(label, 3, 6), STAR)
    /\ Len(label) = 7 => label[7] \in {"s", "S"}

\* C10: a raw label "<N> star(s)" gives NEGATIVE for N in {1, 2}, NEUTRAL for
\* N = 3 and POSITIVE for N in {4, 5}; a raw label POSITIVE or NEGATIVE in
\* any letter case gives that label in upper case.
C10_LabelNormalization ==
    \A t \in Threads :
        (raw[t].kind = "output" /\ Len(results[t]) >= 1) =>
            LET r == LastResult(t)
                label == raw[t].label
            IN  /\ \A n \in 1..5 :
                      IsStarLabel(label, n) =>
                          /\ ~HasError(r)
                          /\ r.sentiment = IF n \in {1, 2} THEN NEGATIVE
                                           ELSE IF n = 3 THEN NEUTRAL
                                           ELSE POSITIVE
                /\ SameIgnoringCase(label, POSITIVE) =>
                      ~HasError(r) /\ r.sentiment = POSITIVE
                /\ SameIgnoringCase(label, NEGATIVE) =>
                      ~HasError(r) /\ r.sentiment = NEGATIVE

\* The model gave "2 stars" and the result is NEGATIVE.
C10_Witness ==
    \E t \in Threads :
        /\ raw[t].kind = "output"
        /\ raw[t].label = <<"2", " ", "s", "t", "a", "r", "s">>
        /\ Len(results[t]) = 1
        /\ results[t][1].sentiment = NEGATIVE

\* The JSON body data fails the boundary validation of endpoint ep: for
\* /api/analyze the text is missing or empty; for /api/batch texts is
\* missing, is not a list, or has more than 100 items.
FailsValidation(ep, data) ==
    \/ /\ ep = "analyze"
       /\ ("text" \notin DOMAIN data \/ data["text"] = <<>>)
    \/ /\ ep = "batch"
       /\ \/ "texts" \notin DOMAIN data
          \/ data["texts"].type # "list"
          \/ Len(data["texts"].items) > 100

\* Thread t's step takes a POST request to /api/analyze or /api/batch.
TakesPost(t) ==
    pc[t] = "idle" /\ pc'[t] # "idle" /\ endpoint'[t] \in {"analyze", "batch"}

\* C11: a request to /api/analyze or /api/batch that fails boundary
\* validation is answered in the step that takes it, with status 400 (the
\* key check permitting), and never reaches analyze_sentiment: the request
\* has no result, no model is loaded or called, models_cache and the history
\* are unchanged, and the answered request does nothing more.
C11_InvalidRequestRejected ==
    [][\A t \in Threads :
        /\ (TakesPost(t) /\ FailsValidation(endpoint'[t], request'[t].data)) =>
              /\ response'[t].status =
                    IF KeyRejected(request'[t].headers) THEN 401 ELSE 400
              /\ pc'[t] = "done"
              /\ results'[t] = <<>>
              /\ model'[t] = None
              /\ raw'[t] = NoOutput
              /\ models_cache' = models_cache
              /\ loads' = loads
              /\ history' = history
        /\ (pc[t] = "done" /\ response[t].status = 400 /\ pc'[t] # "done") =>
              /\ pc'[t] = "idle"
              /\ models_cache' = models_cache
              /\ loads' = loads
              /\ history' = history]_vars

\* A batch of 101 texts sent with a known key is answered 400 after earlier
\* requests have loaded a model and saved a row, and the thread has no
\* result.
C11_Witness ==
    \E t \in Threads :
        /\ pc[t] = "done"
        /\ endpoint[t] = "batch"
        /\ request[t].headers = ("X-API-Key" :> "demo-api-key-12345")
        /\ "texts" \in DOMAIN request[t].data
        /\ Len(request[t].data["texts"].items) = 101
        /\ response[t] = [status |-> 400,
                          body |-> [error |-> "Maximum 100 texts per batch"]]
        /\ results[t] = <<>>
        /\ history # <<>>
        /\ models_cache # EmptyCache

\* Whether the request of thread t asks for its results to be saved:
\* save_history of its body, true when the body has none.
SaveRequested(t) ==
    IF "save_history" \in DOMAIN request[t].data
    THEN request[t].data["save_history"]
    ELSE TRUE

\* C12: the history changes only by one row appended for the item a handler
\* has just analysed, when the item's result has no error and the request
\* asked for saving, and the row holds the item's text, sentiment,
\* confidence and language; an item whose result has an error, and every
\* item of a request with save_history false, goes by without a row.
C12_HistoryOnlyOnSuccess ==
    [][/\ history' # history =>
            \E t \in Threads :
                /\ Len(results[t]) = idx[t]
                /\ results'[t] = results[t]
                /\ idx'[t] = idx[t] + 1
                /\ ~HasError(results[t][idx[t]])
                /\ SaveRequested(t)
                /\ history' = Append(history,
                       [text |-> texts[t][idx[t]],
                        sentiment |-> results[t][idx[t]].sentiment,
                        score |-> results[t][idx[t]].confidence,
                        language |-> language[t]])
       /\ \A t \in Threads :
            (/\ Len(results'[t]) = Len(results[t]) + 1
             /\ \/ HasError(results'[t][Len(results'[t])])
                \/ ~SaveRequested(t)) =>
                /\ history' = history
                /\ idx'[t] = idx[t] + 1]_vars

\* A batch that asked for saving is answered: its first text was empty, its
\* second failed at the model call, its third succeeded, and the history
\* holds the third's row alone.
C12_Witness ==
    \E t \in Threads :
        /\ BatchDone(t)
        /\ SaveRequested(t)
        /\ Len(results[t]) = 3
        /\ results[t][1] = EmptyResult(texts[t][1])
        /\ HasError(results[t][2]) /\ results[t][2].error = "RuntimeError"
        /\ ~HasError(results[t][3])
        /\ history = <<[text |-> texts[t][3],
                        sentiment |-> results[t][3].sentiment,
                        score |-> results[t][3].confidence,
                        language |-> language[t]]>>

\* r is a result that analyze_sentiment can return for text in language
\* lang: it names the text, and it is the empty-text result when the text is
\* empty after preprocessing, else an error result or a sentiment for the
\* preprocessed text.
IsAnalysisOf(r, text, lang) ==
    /\ r.text = text
    /\ IF truncate_text(preprocess_text(text)) = <<>>
       THEN r = [text |-> text, sentiment |-> NEUTRAL, confidence |-> 0,
                 error |-> "Empty text after preprocessing"]
       ELSE \/ /\ DOMAIN r = {"text", "error"}
               /\ r.error # "Empty text after preprocessing"
            \/ /\ DOMAIN r = {"text", "processed_text", "sentiment", "confidence",
                              "language", "processing_time_seconds"}
               /\ r.processed_text = truncate_text(preprocess_text(text))
               /\ r.language = lang

\* The texts and the language of the batch request of thread t.
RequestTexts(t) == request[t].data["texts"].items
RequestLanguage(t) ==
    IF "language" \in DOMAIN request[t].data
    THEN request[t].data["language"]
    ELSE "en"

\* C13: while a batch is handled its results are the analyses of the first
\* texts of the request, in the request's order, and the answered batch has
\* one result for every text: results[i] is the analysis of texts[i].
C13_ResultsInInputOrder ==
    \A t \in Threads :
        (endpoint[t] = "batch" /\ response[t].status \in {0, 200}) =>
            /\ Len(results[t]) <= Len(RequestTexts(t))
            /\ \A i \in 1..Len(results[t]) :
                  IsAnalysisOf(results[t][i], RequestTexts(t)[i], RequestLanguage(t))
            /\ BatchDone(t) =>
                  /\ response[t].body.results = results[t]
                  /\ Len(response[t].body.results) = Len(RequestTexts(t))

\* An answered batch of a text, a URL alone and the first text again: three
\* results, the second the empty-text result, the first and the third for
\* the same text and different.
C13_Witness ==
    \E t \in Threads :
        /\ BatchDone(t)
        /\ RequestTexts(t) = <<(<<"a">>), <<"U", "a">>, <<"a">>>>
        /\ Len(response[t].body.results) = 3
        /\ response[t].body.results[2] = EmptyResult(<<"U", "a">>)
        /\ response[t].body.results[1].text = <<"a">>
        /\ response[t].body.results[3].text = <<"a">>
        /\ response[t].body.results[1] # response[t].body.results[3]

\* C14: in the statistics of an answered batch, successful is the number of
\* results without an error and failed the number of the others; an item
\* that is empty after preprocessing is among the failed; the key
\* sentiment_distribution is there exactly when successful > 0, and each of
\* its counts is the number of results without an error that have that
\* sentiment, so the empty-text result adds nothing to NEUTRAL.
C14_DistributionOfSuccessfulOnly ==
    \A t \in Threads :
        BatchDone(t) =>
            LET st == response[t].body.statistics
                res == response[t].body.results
                ok == {i \in 1..Len(res) : "error" \notin DOMAIN res[i]}
                empties == {i \in 1..Len(res) :
                               truncate_text(preprocess_text(RequestTexts(t)[i])) = <<>>}
                among(s) == Cardinality({i \in ok : res[i].sentiment = s})
            IN  /\ st.successful = Cardinality(ok)
                /\ st.failed = Len(res) - Cardinality(ok)
                /\ empties \cap ok = {}
                /\ st.failed >= Cardinality(empties)
                /\ ("sentiment_distribution" \in DOMAIN st) <=> (st.successful > 0)
                /\ "sentiment_distribution" \in DOMAIN st =>
                      /\ DOMAIN st.sentiment_distribution =
                            {"POSITIVE", "NEGATIVE", "NEUTRAL"}
                      /\ st.sentiment_distribution.POSITIVE = among(POSITIVE)
                      /\ st.sentiment_distribution.NEGATIVE = among(NEGATIVE)
                      /\ st.sentiment_distribution.NEUTRAL = among(NEUTRAL)

\* An answered batch of a URL alone and a text the model rated "3 stars":
\* one failed, one successful, and NEUTRAL counted once.
C14_Witness ==
    \E t \in Threads :
        /\ BatchDone(t)
        /\ Len(results[t]) = 2
        /\ results[t][1] = EmptyResult(<<"U", "a">>)
        /\ ~HasError(results[t][2]) /\ results[t][2].sentiment = NEUTRAL
        /\ response[t].body.statistics =
              [total |-> 2, successful |-> 1, failed |-> 1,
               sentiment_distribution |->
                   [POSITIVE |-> 0, NEGATIVE |-> 0, NEUTRAL |-> 1]]

\* Thread t's step takes a request to an endpoint behind require_api_key.
TakesRequest(t) == pc[t] = "idle" /\ pc'[t] # "idle"

\* C15: on every endpoint behind require_api_key, a request without an
\* X-API-Key header and a request with a key of API_KEYS reach the handler
\* (the answer is not 401), and a request with a key that is not in API_KEYS
\* is answered 401 without the handler running: no result, no load, no
\* model call, models_cache and the history unchanged.
C15_KeyCheck ==
    [][\A t \in Threads :
        TakesRequest(t) =>
            LET headers == request'[t].headers
            IN  /\ ("X-API-Key" \notin DOMAIN headers
                       \/ headers["X-API-Key"] \in API_KEYS) =>
                      response'[t].status # 401
                /\ ("X-API-Key" \in DOMAIN headers
                       /\ headers["X-API-Key"] \notin API_KEYS) =>
                      /\ response'[t] = [status |-> 401,
                                         body |-> [error |-> "Invalid API key"]]
                      /\ pc'[t] = "done"
                      /\ results'[t] = <<>>
                      /\ model'[t] = None
                      /\ raw'[t] = NoOutput
                      /\ models_cache' = models_cache
                      /\ loads' = loads
                      /\ history' = history]_vars

\* C16: with one request at a time, models_cache has one entry for each
\* language tag that a load succeeded for and one load was performed for
\* each, so k tags give k entries and k loads; an entry is the pipeline
\* loaded for its tag, and the entries of two tags are two pipelines, also
\* when both tags resolve to the same model ("es", "fr" and every tag
\* model_map lacks resolve to the multilingual model).
C16_CacheKeyedByTag ==
    /\ DOMAIN models_cache \subseteq Languages
    /\ \A l \in Languages :
          loads[l] = IF l \in DOMAIN models_cache THEN 1 ELSE 0
    /\ \A l \in DOMAIN models_cache :
          /\ models_cache[l].tag = l
          /\ models_cache[l].name =
                IF l = "en" THEN "distilbert-base-uncased-finetuned-sst-2-english"
                ELSE "nlptown/bert-base-multilingual-uncased-sentiment"
    /\ \A l1, l2 \in DOMAIN models_cache :
          l1 # l2 => models_cache[l1] # models_cache[l2]

\* After requests in "es", "fr" and "xx" the cache holds three pipelines of
\* the multilingual model, one per tag, and three loads were performed.
C16_Witness ==
    /\ DOMAIN models_cache = {"es", "fr", "xx"}
    /\ models_cache["es"].name = models_cache["fr"].name
    /\ models_cache["fr"].name = models_cache["xx"].name
    /\ Cardinality({models_cache[l] : l \in DOMAIN models_cache}) = 3
    /\ loads["es"] + loads["fr"] + loads["xx"] = 3
    /\ loads["en"] = 0 /\ loads["yy"] = 0

\* Thread t's step is a save_to_history call that adds no row.
SaveFails(t) == pc[t] = "save" /\ pc'[t] # "save" /\ history' = history

\* C17: a failed append to the history is swallowed.  The step leaves the
\* results as they are, the saved item's result without an error, answers
\* nothing itself and goes on to the next text or to the response; every
\* later item that succeeds when saving was asked for gets its append
\* attempted; the response is 200 with the results as analysed, and no
\* request is answered 500.
C17_SaveFailureSwallowed ==
    /\ [](\A t \in Threads : response[t].status # 500)
    /\ [][\A t \in Threads :
            /\ SaveFails(t) =>
                  /\ results'[t] = results[t]
                  /\ ~HasError(results[t][idx[t]])
                  /\ response'[t] = NoResponse
                  /\ idx'[t] = idx[t] + 1
                  /\ pc'[t] = IF idx[t] < Len(texts[t]) THEN "analyze" ELSE "respond"
            /\ (/\ Len(results'[t]) = Len(results[t]) + 1
                /\ ~HasError(results'[t][Len(results'[t])])
                /\ SaveRequested(t)) =>
                  pc'[t] = "save"
            /\ (pc[t] # "done" /\ pc'[t] = "done" /\ results[t] # <<>>) =>
                  /\ response'[t].status = 200
                  /\ response'[t].body =
                        IF endpoint[t] = "analyze" THEN results[t][1]
                        ELSE [results |-> results[t],
                              statistics |-> response'[t].body.statistics]]_vars

\* A batch that asked for saving is answered 200 with two results without
\* error, POSITIVE and NEGATIVE; the append of the first failed, and the
\* history holds the row of the second.
C17_Witness ==
    \E t \in Threads :
        /\ BatchDone(t)
        /\ SaveRequested(t)
        /\ Len(response[t].body.results) = 2
        /\ ~HasError(response[t].body.results[1])
        /\ ~HasError(response[t].body.results[2])
        /\ response[t].body.results[1].sentiment = POSITIVE
        /\ response[t].body.results[2].sentiment = NEGATIVE
        /\ response[t].body.statistics.successful = 2
        /\ history = <<[text |-> texts[t][2], sentiment |-> NEGATIVE,
                        score |-> response[t].body.results[2].confidence,
                        language |-> language[t]]>>

=============================================================================
